---- MODULE Spec2Model ----
(***************************************************************************)
(* A model of radio-host: pipeline.py (extraction, normalisation, script   *)
(* generation, transcript parsing, synthesis and stitching) and the two    *)
(* handlers of app.py that drive it.                                       *)
(*                                                                         *)
(* A Python str is a sequence of one-character strings.                    *)
(***************************************************************************)
EXTENDS Integers, Sequences, FiniteSets, TLC

VARIABLES
    \* clean_wikipedia_text applied once and twice to one input
    cleanIn, cleanOut1, cleanOut2, cleanPc,
    \* parse_conversation applied to one script
    script, turns, parsePc,
    \* stage A: generate_script_from_wikipedia inside generate_script
    OPENAI_API_KEY, wiki_url, wikiDoc, promptTemplate, soup, headings,
    scanned, combined, cleanContent, pcA, netlogA, responseA,
    \* stage B: generate_mp3 invocations, their locals and the exported file
    ELEVENLABS_API_KEY, pc, reqScript, mp3Turns, idx, final_audio, segments,
    pauses, calls, response, audioFile, served

cleanVars == <<cleanIn, cleanOut1, cleanOut2, cleanPc>>
parseVars == <<script, turns, parsePc>>
stageAVars == <<OPENAI_API_KEY, wiki_url, wikiDoc, promptTemplate, soup,
                headings, scanned, combined, cleanContent, pcA, netlogA,
                responseA>>
stageBVars == <<ELEVENLABS_API_KEY, pc, reqScript, mp3Turns, idx, final_audio,
                segments, pauses, calls, response, audioFile, served>>
vars == <<cleanVars, parseVars, stageAVars, stageBVars>>

(***************************************************************************)
(* Bounds of the model.                                                    *)
(***************************************************************************)
MaxCleanLen == 5
MaxLines == 3
MaxNodes == 4
MaxMp3Lines == 3

(***************************************************************************)
(* Characters and strings.                                                 *)
(***************************************************************************)
Lower == {"a","b","c","d","e","f","g","h","i","j","k","l","m",
          "n","o","p","q","r","s","t","u","v","w","x","y","z"}
Upper == {"A","B","C","D","E","F","G","H","I","J","K","L","M",
          "N","O","P","Q","R","S","T","U","V","W","X","Y","Z"}
Letter == Lower \cup Upper
Digit == {"0","1","2","3","4","5","6","7","8","9"}
Punct == {".", ",", ";", ":"}
Space == {" ", "\t", "\n", "\r"}

BoundedStr(alphabet, n) == UNION {[1..k -> alphabet] : k \in 0..n}

\* str.strip(): leading and trailing whitespace removed
RECURSIVE LStrip(_)
LStrip(s) ==
    IF s # <<>> /\ Head(s) \in Space THEN LStrip(Tail(s)) ELSE s

RECURSIVE RStrip(_)
RStrip(s) ==
    IF s # <<>> /\ s[Len(s)] \in Space
    THEN RStrip(SubSeq(s, 1, Len(s) - 1)) ELSE s

Strip(s) == RStrip(LStrip(s))

(***************************************************************************)
(* Text Normalizer: clean_wikipedia_text.  re.sub replaces the leftmost    *)
(* non-overlapping matches, scanning from the left.                        *)
(***************************************************************************)
\* the index of the first "]" at or after i, or 0
RECURSIVE FirstClose(_, _)
FirstClose(s, i) ==
    IF i > Len(s) THEN 0
    ELSE IF s[i] = "]" THEN i ELSE FirstClose(s, i + 1)

\* re.sub(r"\[[^\]]*\]", "", text) from index i on
RECURSIVE RemoveCitationsFrom(_, _)
RemoveCitationsFrom(s, i) ==
    IF i > Len(s) THEN <<>>
    ELSE IF s[i] = "[" /\ FirstClose(s, i + 1) # 0
         THEN RemoveCitationsFrom(s, FirstClose(s, i + 1) + 1)
         ELSE <<s[i]>> \o RemoveCitationsFrom(s, i + 1)

RemoveCitations(s) == RemoveCitationsFrom(s, 1)

\* re.sub(r"([L])([R])", r"\1 \2", text) from index i on
RECURSIVE SplitJoinFrom(_, _, _, _)
SplitJoinFrom(s, i, L, R) ==
    IF i > Len(s) THEN <<>>
    ELSE IF i < Len(s) /\ s[i] \in L /\ s[i + 1] \in R
         THEN <<s[i], " ", s[i + 1]>> \o SplitJoinFrom(s, i + 2, L, R)
         ELSE <<s[i]>> \o SplitJoinFrom(s, i + 1, L, R)

SplitJoin(s, L, R) == SplitJoinFrom(s, 1, L, R)

\* re.sub(r"\s+", " ", text)
RECURSIVE CollapseSpace(_)
CollapseSpace(s) ==
    IF s = <<>> THEN <<>>
    ELSE IF Head(s) \in Space
         THEN <<" ">> \o CollapseSpace(LStrip(s))
         ELSE <<Head(s)>> \o CollapseSpace(Tail(s))

\* the variant that removes citations after the joins were split
clean_citations_last(text) ==
    LET t2 == SplitJoin(text, Lower, Upper)
        t3 == SplitJoin(t2, Punct, Letter)
        t4 == SplitJoin(t3, Letter, Digit)
        t5 == SplitJoin(t4, Digit, Letter)
        t1 == RemoveCitations(t5)
        t6 == CollapseSpace(t1)
    IN  Strip(t6)

clean_wikipedia_text(text) ==
    LET t1 == RemoveCitations(text)
        t2 == SplitJoin(t1, Lower, Upper)
        t3 == SplitJoin(t2, Punct, Letter)
        t4 == SplitJoin(t3, Letter, Digit)
        t5 == SplitJoin(t4, Digit, Letter)
        t6 == CollapseSpace(t5)
    IN  Strip(t6)

\* the characters the bounded inputs of the normalizer are drawn from
CleanAlphabet == {"a", "B", "1", ".", "[", "]", " ", "\n"}

\* the repairs spec.md lists
theRepublic == <<"t","h","e","R","e","p","u","b","l","i","c">>
IndiaIs == <<"I","n","d","i","a",",","i","s">>
basin9 == <<"b","a","s","i","n","9">>
BCE1200 == <<"1","2","0","0","B","C","E">>
textCiteMore == <<"t","e","x","t","[","1","2","]","m","o","r","e">>
textCiteMoreUpper == <<"t","e","x","t","[","1","2","]","M","o","r","e">>
CleanSamples ==
    {theRepublic, IndiaIs, basin9, BCE1200, textCiteMore, textCiteMoreUpper}

CleanInputs == BoundedStr(CleanAlphabet, MaxCleanLen) \cup CleanSamples

(***************************************************************************)
(* Transcript Parser: parse_conversation.                                  *)
(***************************************************************************)
LowerSeq == <<"a","b","c","d","e","f","g","h","i","j","k","l","m",
              "n","o","p","q","r","s","t","u","v","w","x","y","z">>
UpperSeq == <<"A","B","C","D","E","F","G","H","I","J","K","L","M",
              "N","O","P","Q","R","S","T","U","V","W","X","Y","Z">>

\* the case folding of re.IGNORECASE on the characters of the model
LowerOf(c) ==
    IF c \in Upper
    THEN LowerSeq[CHOOSE i \in 1..26 : UpperSeq[i] = c]
    ELSE c

\* the index of the first "\n" at or after i, or 0
RECURSIVE FirstNewline(_, _)
FirstNewline(s, i) ==
    IF i > Len(s) THEN 0
    ELSE IF s[i] = "\n" THEN i ELSE FirstNewline(s, i + 1)

\* str.split("\n")
RECURSIVE SplitLines(_)
SplitLines(s) ==
    LET k == FirstNewline(s, 1)
    IN  IF k = 0 THEN <<s>>
        ELSE <<SubSeq(s, 1, k - 1)>> \o SplitLines(SubSeq(s, k + 1, Len(s)))

\* the index of the first non-whitespace character at or after i (Len(s) + 1
\* when there is none): where a greedy \s* starting at i ends
RECURSIVE SkipSpace(_, _)
SkipSpace(s, i) ==
    IF i <= Len(s) /\ s[i] \in Space THEN SkipSpace(s, i + 1) ELSE i

SpeakerWord == <<"s","p","e","a","k","e","r">>

\* the literal Speaker matched without re.IGNORECASE
MatchWordCaseSensitive(line) ==
    /\ Len(line) >= 7
    /\ SubSeq(line, 1, 7) = <<"S","p","e","a","k","e","r">>

\* the literal Speaker of the pattern, under re.IGNORECASE
MatchWord(line) ==
    /\ Len(line) >= 7
    /\ [i \in 1..7 |-> LowerOf(line[i])] = SpeakerWord

\* re.match(r"(Speaker\s*[12]):\s*(.+)", line, re.IGNORECASE) on a line that
\* holds no "\n": the groups, or ok = FALSE.  When the greedy \s* after the
\* colon leaves nothing for (.+), it gives back its last character.
MatchTurn(line) ==
    LET n == Len(line)
        d == SkipSpace(line, 8)
        t == SkipSpace(line, d + 2)
        none == [ok |-> FALSE, speaker_raw |-> <<>>, text |-> <<>>]
    IN  IF MatchWord(line) /\ d + 1 <= n /\ line[d] \in {"1", "2"}
           /\ line[d + 1] = ":"
        THEN IF t <= n
             THEN [ok |-> TRUE, speaker_raw |-> SubSeq(line, 1, d),
                   text |-> SubSeq(line, t, n)]
             ELSE IF n >= d + 2
                  THEN [ok |-> TRUE, speaker_raw |-> SubSeq(line, 1, d),
                        text |-> SubSeq(line, n, n)]
                  ELSE none
        ELSE none

\* the loop of parse_conversation over the lines that remain
RECURSIVE ParseLines(_)
ParseLines(lines) ==
    IF lines = <<>> THEN <<>>
    ELSE LET line == Strip(Head(lines))
             m == MatchTurn(line)
             speaker_id ==
                 IF \E i \in 1..Len(m.speaker_raw) : m.speaker_raw[i] = "1"
                 THEN "speaker1" ELSE "speaker2"
         IN  IF line = <<>> \/ ~m.ok
             THEN ParseLines(Tail(lines))
             ELSE <<(<<speaker_id, Strip(m.text)>>)>> \o ParseLines(Tail(lines))

parse_conversation(s) == ParseLines(SplitLines(Strip(s)))

\* str.join
RECURSIVE Join(_, _)
Join(sep, parts) ==
    IF parts = <<>> THEN <<>>
    ELSE IF Len(parts) = 1 THEN parts[1]
    ELSE parts[1] \o sep \o Join(sep, Tail(parts))

\* lines a Script is made of in the model
Speaker == <<"S","p","e","a","k","e","r">>
LineHello == Speaker \o <<"1",":"," ","H","i"," ","y","o","u">>
LineLower == <<"s","p","e","a","k","e","r"," ","2",":","Y","o","!">>
LineUpperPadded ==
    <<" "," ","S","P","E","A","K","E","R","2",":"," ","\t","O","k"," ","\r">>
LineBlank == <<>>
LineSpaces == <<" ", "\t">>
LineProse == <<"n","o","t"," ","a"," ","l","i","n","e">>
LineDigit3 == Speaker \o <<"3",":"," ","x">>
LineNoText == Speaker \o <<"1",":">>
LineOnlySpaceText == Speaker \o <<"2",":"," "," ">>
LineTwoDigits == Speaker \o <<"1","2",":"," ","x">>
LineNotAtStart == <<"x"," ">> \o Speaker \o <<"1",":"," ","y">>
LineSpaceBeforeColon == Speaker \o <<"1"," ",":"," ","x">>
LineOneInText == Speaker \o <<"2",":","1">>
LineSet ==
    {LineHello, LineLower, LineUpperPadded, LineBlank, LineSpaces, LineProse,
     LineDigit3, LineNoText, LineOnlySpaceText, LineTwoDigits, LineNotAtStart,
     LineSpaceBeforeColon, LineOneInText}

ScriptsOf(lineSet, n) ==
    {Join(<<"\n">>, ls) : ls \in BoundedStr(lineSet, n)}

ScriptSet == ScriptsOf(LineSet, MaxLines)

(***************************************************************************)
(* Content Extractor: extract_headings and extract_combined_content.       *)
(*                                                                         *)
(* A parsed document is the sequence soup.find_all(["h1", "h2", "p"]) of   *)
(* its tags in document order.  A tag is a record: name, id (the id        *)
(* attribute, or ""), text (get_text(strip=True)) and plain (whether       *)
(* .string is that same text: FALSE for nested markup or padded text).     *)
(* Two tags are == in BeautifulSoup when name, attributes and contents     *)
(* agree, which is equality of these records.                              *)
(***************************************************************************)
RECURSIVE Rep(_, _)
Rep(c, n) == IF n = 0 THEN <<>> ELSE <<c>> \o Rep(c, n - 1)

Tag(name, id, text, plain) ==
    [name |-> name, id |-> id, text |-> text, plain |-> plain]

India == <<"I","n","d","i","a">>
History == <<"H","i","s","t","o","r","y">>
Geo == <<"G","e","o">>
Contents == <<"C","o","n","t","e","n","t","s">>
ParaShort == Rep("c", 50)
ParaLong1 == theRepublic \o <<"[","1","]">> \o Rep("a", 37)
ParaLong2 == IndiaIs \o Rep("b", 52)

TitleTag == Tag("h1", "firstHeading", India, TRUE)
H1Tags == {TitleTag,
           Tag("h1", "firstHeading", India, FALSE),
           Tag("h1", "", India, TRUE)}
H2Tags == {Tag("h2", "", History, TRUE), Tag("h2", "", Geo, TRUE),
           Tag("h2", "", History, FALSE), Tag("h2", "", Contents, TRUE),
           Tag("h2", "", <<>>, FALSE)}
PTags == {Tag("p", "", ParaShort, TRUE), Tag("p", "", ParaLong1, TRUE),
          Tag("p", "", ParaLong2, TRUE)}
TagSet == H1Tags \cup H2Tags \cup PTags

DocSet == BoundedStr(TagSet, MaxNodes)

\* the least index of a set of indices, or 0: find() returns the first match
FirstOf(S) == IF S = {} THEN 0 ELSE CHOOSE i \in S : \A j \in S : i <= j

\* soup.find("h1", {"id": "firstHeading"})
FindTitle(doc) ==
    FirstOf({i \in 1..Len(doc) :
                doc[i].name = "h1" /\ doc[i].id = "firstHeading"})

\* the variant whose cap is checked after the append instead of before it
RECURSIVE AddH2CapAfter(_, _, _)
AddH2CapAfter(doc, i, hs) ==
    IF i > Len(doc) THEN hs
    ELSE IF doc[i].name # "h2" THEN AddH2CapAfter(doc, i + 1, hs)
    ELSE IF Len(hs) > 3 THEN hs
    ELSE IF doc[i].text # <<>> /\ doc[i].text # Contents
         THEN AddH2CapAfter(doc, i + 1, Append(hs, <<"H2", doc[i].text>>))
         ELSE AddH2CapAfter(doc, i + 1, hs)

\* the loop over soup.find_all("h2") from index i on
RECURSIVE AddH2(_, _, _)
AddH2(doc, i, hs) ==
    IF i > Len(doc) THEN hs
    ELSE IF doc[i].name # "h2" THEN AddH2(doc, i + 1, hs)
    ELSE IF Len(hs) >= 3 THEN hs
    ELSE IF doc[i].text # <<>> /\ doc[i].text # Contents
         THEN AddH2(doc, i + 1, Append(hs, <<"H2", doc[i].text>>))
         ELSE AddH2(doc, i + 1, hs)

extract_headings(doc) ==
    LET h1 == FindTitle(doc)
        hs == IF h1 # 0 THEN <<(<<"H1", doc[h1].text>>)>> ELSE <<>>
    IN  AddH2(doc, 1, hs)

\* soup.find("h1", string=title) or soup.find("h2", string=title), by the
\* heading's level: the index of the tag, or 0
FindHeading(doc, heading) ==
    LET name == IF heading[1] = "H1" THEN "h1" ELSE "h2"
    IN  FirstOf({i \in 1..Len(doc) :
                    /\ doc[i].name = name
                    /\ doc[i].plain
                    /\ doc[i].text = heading[2]})

\* a paragraph of 50 characters is kept as well
KeepParagraphFrom50(text) == Len(text) >= 50

\* the paragraph filter: len(text) > 50
KeepParagraph(text) == Len(text) > 50

\* the variant that breaks at every heading after the start
RECURSIVE ScanStopAtAnyHeading(_, _, _, _, _, _)
ScanStopAtAnyHeading(doc, i, started, start_node, end_node, acc) ==
    IF i > Len(doc) THEN [collected |-> acc, stop |-> Len(doc) + 1]
    ELSE IF doc[i] = start_node
         THEN ScanStopAtAnyHeading(doc, i + 1, TRUE, start_node, end_node, acc)
    ELSE IF started /\ doc[i].name \in {"h1", "h2"}
         THEN [collected |-> acc, stop |-> i]
    ELSE IF started /\ doc[i].name = "p" /\ KeepParagraph(doc[i].text)
         THEN ScanStopAtAnyHeading(doc, i + 1, started, start_node, end_node,
                                   Append(acc, i))
    ELSE ScanStopAtAnyHeading(doc, i + 1, started, start_node, end_node, acc)

\* the for loop of extract_combined_content from index i on: the indices of
\* the paragraphs collected, and the index of the tag the loop broke at
\* (Len(doc) + 1 when it ran to the end)
RECURSIVE ScanFrom(_, _, _, _, _, _)
ScanFrom(doc, i, started, start_node, end_node, acc) ==
    IF i > Len(doc) THEN [collected |-> acc, stop |-> Len(doc) + 1]
    ELSE IF doc[i] = start_node
         THEN ScanFrom(doc, i + 1, TRUE, start_node, end_node, acc)
    ELSE IF started /\ doc[i].name \in {"h1", "h2"} /\ doc[i] # end_node
         THEN [collected |-> acc, stop |-> i]
    ELSE IF started /\ doc[i].name = "p" /\ KeepParagraph(doc[i].text)
         THEN ScanFrom(doc, i + 1, started, start_node, end_node,
                       Append(acc, i))
    ELSE ScanFrom(doc, i + 1, started, start_node, end_node, acc)

NoScan == [collected |-> <<>>, stop |-> 0]

\* extract_combined_content up to its return: NoScan on an early return ""
ScanContent(doc, hs) ==
    IF hs = <<>> THEN NoScan
    ELSE LET s == FindHeading(doc, hs[1])
             e == FindHeading(doc, hs[Len(hs)])
         IN  IF s = 0 \/ e = 0 THEN NoScan
             ELSE ScanFrom(doc, 1, FALSE, doc[s], doc[e], <<>>)

\* "\n".join(collected)
extract_combined_content(doc, hs) ==
    LET sc == ScanContent(doc, hs)
    IN  Join(<<"\n">>, [k \in 1..Len(sc.collected) |-> doc[sc.collected[k]].text])

(***************************************************************************)
(* Stage A: the /generate-script handler around                            *)
(* generate_script_from_wikipedia.  netlogA lists the network calls made.  *)
(***************************************************************************)
NoResponse == [status |-> 0, error |-> "", body |-> <<>>]
Reply(status, error, body) ==
    [status |-> status, error |-> error, body |-> body]

WikiUrl == <<"h","t","t","p","s",":","/","/","w">>
UrlSet == {<<>>, <<" ">>, WikiUrl, <<" ">> \o WikiUrl}
PromptSet == {<<>>, <<"B","e"," ","b","r","i","e","f",".">>}

\* what the language model may answer
LLMReplies == {LineHello \o <<"\n">> \o LineLower \o <<"\n">>, LineProse, <<>>}

\* documents the article reference may serve
SampleDocs ==
    {<<>>,
     <<TitleTag, Tag("p", "", ParaLong1, TRUE), Tag("h2", "", Contents, TRUE),
       Tag("h2", "", History, TRUE), Tag("p", "", ParaLong2, TRUE)>>,
     <<Tag("h2", "", History, TRUE), Tag("p", "", ParaLong2, TRUE),
       Tag("h2", "", Geo, TRUE)>>,
     <<Tag("h1", "firstHeading", India, FALSE), Tag("p", "", ParaLong1, TRUE)>>,
     <<TitleTag, Tag("p", "", ParaShort, TRUE)>>}

\* the PROMPT of generate_script_from_content
Prompt(template, clean_content) ==
    IF template # <<>>
    THEN template \o <<"\n", "\n">> \o <<"C","o","n","t","e","n","t",":","\n">>
         \o clean_content
    ELSE <<"C","o","n","t","e","n","t",":","\n">> \o clean_content

\* generate_script: the request is read, an empty reference is refused
GenerateScriptRequest ==
    /\ pcA = "start"
    /\ IF Strip(wiki_url) = <<>>
       THEN /\ responseA' = Reply(400, "Wikipedia URL is required", <<>>)
            /\ pcA' = "done"
       ELSE /\ pcA' = "fetch"
            /\ UNCHANGED responseA
    /\ UNCHANGED <<OPENAI_API_KEY, wiki_url, wikiDoc, promptTemplate, soup,
                   headings, scanned, combined, cleanContent, netlogA>>

\* fetch_wikipedia_content: requests.get, raise_for_status, BeautifulSoup
FetchWikipediaContent ==
    /\ pcA = "fetch"
    /\ netlogA' = Append(netlogA, "GET article")
    /\ \E ok \in BOOLEAN :
          IF ok
          THEN /\ soup' = wikiDoc
               /\ pcA' = "fetched"
               /\ UNCHANGED responseA
          ELSE /\ responseA' = Reply(500, "HTTPError", <<>>)
               /\ pcA' = "done"
               /\ UNCHANGED soup
    /\ UNCHANGED <<OPENAI_API_KEY, wiki_url, wikiDoc, promptTemplate,
                   headings, scanned, combined, cleanContent>>

ExtractHeadings ==
    /\ pcA = "fetched"
    /\ headings' = extract_headings(soup)
    /\ pcA' = "headings"
    /\ UNCHANGED <<OPENAI_API_KEY, wiki_url, wikiDoc, promptTemplate, soup,
                   scanned, combined, cleanContent, netlogA, responseA>>

ExtractCombinedContent ==
    /\ pcA = "headings"
    /\ scanned' = ScanContent(soup, headings)
    /\ combined' = extract_combined_content(soup, headings)
    /\ pcA' = "combined"
    /\ UNCHANGED <<OPENAI_API_KEY, wiki_url, wikiDoc, promptTemplate, soup,
                   headings, cleanContent, netlogA, responseA>>

CleanContent ==
    /\ pcA = "combined"
    /\ cleanContent' = clean_wikipedia_text(combined)
    /\ pcA' = "cleaned"
    /\ UNCHANGED <<OPENAI_API_KEY, wiki_url, wikiDoc, promptTemplate, soup,
                   headings, scanned, combined, netlogA, responseA>>

\* generate_script_from_content, and the handler's answer
GenerateScriptFromContent ==
    /\ pcA = "cleaned"
    /\ pcA' = "done"
    /\ IF ~OPENAI_API_KEY
       THEN /\ responseA' = Reply(500, "OPENAI_API_KEY not set", <<>>)
            /\ UNCHANGED netlogA
       ELSE /\ netlogA' = Append(netlogA, "POST chat completion")
            /\ \/ responseA' = Reply(500, "APIError", <<>>)
               \/ \E reply \in LLMReplies :
                     responseA' = Reply(200, "", Strip(reply))
    /\ UNCHANGED <<OPENAI_API_KEY, wiki_url, wikiDoc, promptTemplate, soup,
                   headings, scanned, combined, cleanContent>>

(***************************************************************************)
(* Stage B: the /generate-mp3 handler around generate_mp3_from_script, and *)
(* /static/audio/<filename>.  Each caller runs one invocation; an          *)
(* invocation's locals are indexed by its caller.  An audio track is the   *)
(* sequence of the segments concatenated into it.                          *)
(***************************************************************************)
Callers == {"c1", "c2"}

VOICE_MAP ==
    [speaker1 |-> "3AMU7jXQuQa3oRvRqUmb", speaker2 |-> "OtEfb2LVzIE45wdYe54M"]

\* natural_pause_ms draws from these
PauseChoices == {200, 250, 300, 350, 400}

\* durations the synthesis service may return, in ms
SegDurs == {900, 1300}

\* status codes the synthesis service may answer with
TtsStatus == {200, 503}

Speech(speaker, text, dur) ==
    [kind |-> "speech", voice |-> VOICE_MAP[speaker], text |-> text, dur |-> dur]
Silent(ms) == [kind |-> "pause", voice |-> "", text |-> <<>>, dur |-> ms]

\* len(audio): the duration of a track in ms
RECURSIVE Duration(_)
Duration(track) ==
    IF track = <<>> THEN 0 ELSE Head(track).dur + Duration(Tail(track))

\* a response status the synthesizer accepts although it is not 200
TtsAcceptsAnyStatus(status) == FALSE

\* tts_turn_elevenlabs: response.status_code != 200 raises
TtsFailed(status) == status # 200

\* a pause after every turn, the last one too
PauseAfterEveryTurn(i, n) == i <= n

\* stitch_conversation_elevenlabs: i < len(turns) - 1, with turns counted from 1
PauseFollows(i, n) == i < n

NoMp3Response ==
    [status |-> 0, error |-> "", audio_url |-> "", duration_ms |-> 0]
Mp3Error(status, error) ==
    [status |-> status, error |-> error, audio_url |-> "", duration_ms |-> 0]
NoFile == [exists |-> FALSE, by |-> "", track |-> <<>>]
NotServed == [status |-> 0, track |-> <<>>]

stageBLocals == <<ELEVENLABS_API_KEY, reqScript>>

\* generate_mp3: the request is read, an empty script is refused;
\* parse_conversation; final_audio = AudioSegment.silent(0)
GenerateMp3Request(c) ==
    /\ pc[c] = "start"
    /\ IF Strip(reqScript[c]) = <<>>
       THEN /\ response' = [response EXCEPT ![c] = Mp3Error(400, "Script is required")]
            /\ pc' = [pc EXCEPT ![c] = "done"]
            /\ UNCHANGED <<mp3Turns, idx, final_audio>>
       ELSE /\ mp3Turns' = [mp3Turns EXCEPT ![c] = parse_conversation(Strip(reqScript[c]))]
            /\ final_audio' = [final_audio EXCEPT ![c] = <<>>]
            /\ idx' = [idx EXCEPT ![c] = 1]
            /\ pc' = [pc EXCEPT ![c] = "stitch"]
            /\ UNCHANGED response
    /\ UNCHANGED <<stageBLocals, segments, pauses, calls, audioFile, served>>

\* one iteration of the loop of stitch_conversation_elevenlabs:
\* tts_turn_elevenlabs, then the pause; an exception ends the invocation in
\* the handler's except clause
StitchTurn(c) ==
    /\ pc[c] = "stitch"
    /\ idx[c] <= Len(mp3Turns[c])
    /\ LET i == idx[c]
           turn == mp3Turns[c][i]
       IN  IF ~ELEVENLABS_API_KEY
           THEN /\ response' = [response EXCEPT
                       ![c] = Mp3Error(500, "ELEVENLABS_API_KEY not set")]
                /\ pc' = [pc EXCEPT ![c] = "done"]
                /\ UNCHANGED <<idx, final_audio, segments, pauses, calls>>
           ELSE \E status \in TtsStatus, dur \in SegDurs, ms \in PauseChoices :
                /\ calls' = [calls EXCEPT ![c] = Append(@, [turn |-> i, status |-> status])]
                /\ IF TtsFailed(status)
                   THEN /\ response' = [response EXCEPT
                               ![c] = Mp3Error(500, "ElevenLabs TTS failed")]
                        /\ pc' = [pc EXCEPT ![c] = "done"]
                        /\ UNCHANGED <<idx, final_audio, segments, pauses>>
                   ELSE LET segment == Speech(turn[1], turn[2], dur)
                        IN  /\ segments' = [segments EXCEPT ![c] = Append(@, segment)]
                            /\ IF PauseFollows(i, Len(mp3Turns[c]))
                               THEN /\ final_audio' = [final_audio EXCEPT
                                           ![c] = @ \o <<segment, Silent(ms)>>]
                                    /\ pauses' = [pauses EXCEPT ![c] = Append(@, ms)]
                               ELSE /\ final_audio' = [final_audio EXCEPT
                                           ![c] = Append(@, segment)]
                                    /\ UNCHANGED pauses
                            /\ idx' = [idx EXCEPT ![c] = i + 1]
                            /\ UNCHANGED <<pc, response>>
    /\ UNCHANGED <<stageBLocals, mp3Turns, audioFile, served>>

\* the loop has ended: final_audio.export(audio_path, format="mp3")
ExportAudio(c) ==
    /\ pc[c] = "stitch"
    /\ idx[c] > Len(mp3Turns[c])
    /\ audioFile' = [exists |-> TRUE, by |-> c, track |-> final_audio[c]]
    /\ pc' = [pc EXCEPT ![c] = "exported"]
    /\ UNCHANGED <<stageBLocals, mp3Turns, idx, final_audio, segments, pauses,
                   calls, response, served>>

\* the handler's answer: the audio URL and len(final_audio) / 1000.0, kept in ms
RespondMp3(c) ==
    /\ pc[c] = "exported"
    /\ response' = [response EXCEPT
           ![c] = [status |-> 200, error |-> "",
                   audio_url |-> "/static/audio/generated_audio.mp3",
                   duration_ms |-> Duration(final_audio[c])]]
    /\ pc' = [pc EXCEPT ![c] = "done"]
    /\ UNCHANGED <<stageBLocals, mp3Turns, idx, final_audio, segments, pauses,
                   calls, audioFile, served>>

\* serve_audio: the caller fetches the URL it was given
ServeAudio(c) ==
    /\ pc[c] = "done"
    /\ response[c].status = 200
    /\ served[c].status = 0
    /\ served' = [served EXCEPT
           ![c] = IF audioFile.exists
                  THEN [status |-> 200, track |-> audioFile.track]
                  ELSE [status |-> 404, track |-> <<>>]]
    /\ UNCHANGED <<stageBLocals, pc, mp3Turns, idx, final_audio, segments,
                   pauses, calls, response, audioFile>>

(***************************************************************************)
(* The normalizer and the parser applied on their own.                     *)
(***************************************************************************)
CleanOnce ==
    /\ cleanPc = "start"
    /\ cleanOut1' = clean_wikipedia_text(cleanIn)
    /\ cleanPc' = "once"
    /\ UNCHANGED <<cleanIn, cleanOut2>>

CleanTwice ==
    /\ cleanPc = "once"
    /\ cleanOut2' = clean_wikipedia_text(cleanOut1)
    /\ cleanPc' = "twice"
    /\ UNCHANGED <<cleanIn, cleanOut1>>

ParseConversation ==
    /\ parsePc = "start"
    /\ turns' = parse_conversation(script)
    /\ parsePc' = "done"
    /\ UNCHANGED script

(***************************************************************************)
(* Initial states and specifications, one per component under study.  A    *)
(* component that a specification does not run is off.                     *)
(***************************************************************************)
CleanOff ==
    /\ cleanIn = <<>> /\ cleanOut1 = <<>> /\ cleanOut2 = <<>>
    /\ cleanPc = "off"

ParseOff == script = <<>> /\ turns = <<>> /\ parsePc = "off"

StageAOff ==
    /\ OPENAI_API_KEY = FALSE /\ wiki_url = <<>> /\ wikiDoc = <<>>
    /\ promptTemplate = <<>> /\ soup = <<>> /\ headings = <<>>
    /\ scanned = NoScan /\ combined = <<>> /\ cleanContent = <<>>
    /\ pcA = "off" /\ netlogA = <<>> /\ responseA = NoResponse

\* the locals of stage B before any request was handled
StageBStart(scripts, running) ==
    /\ ELEVENLABS_API_KEY \in BOOLEAN
    /\ reqScript \in scripts
    /\ pc = [c \in Callers |-> IF c \in running THEN "start" ELSE "off"]
    /\ mp3Turns = [c \in Callers |-> <<>>]
    /\ idx = [c \in Callers |-> 0]
    /\ final_audio = [c \in Callers |-> <<>>]
    /\ segments = [c \in Callers |-> <<>>]
    /\ pauses = [c \in Callers |-> <<>>]
    /\ calls = [c \in Callers |-> <<>>]
    /\ response = [c \in Callers |-> NoMp3Response]
    /\ audioFile = NoFile
    /\ served = [c \in Callers |-> NotServed]

StageBOff ==
    /\ StageBStart({[c \in Callers |-> <<>>]}, {})
    /\ ELEVENLABS_API_KEY = FALSE

\* the normalizer, once and twice, on every bounded input
InitClean ==
    /\ cleanIn \in CleanInputs
    /\ cleanOut1 = <<>> /\ cleanOut2 = <<>> /\ cleanPc = "start"
    /\ ParseOff /\ StageAOff /\ StageBOff
NextClean ==
    \/ CleanOnce /\ UNCHANGED <<parseVars, stageAVars, stageBVars>>
    \/ CleanTwice /\ UNCHANGED <<parseVars, stageAVars, stageBVars>>
SpecClean == InitClean /\ [][NextClean]_vars

\* the parser on every bounded script
InitParse ==
    /\ script \in ScriptSet
    /\ turns = <<>> /\ parsePc = "start"
    /\ CleanOff /\ StageAOff /\ StageBOff
NextParse ==
    ParseConversation /\ UNCHANGED <<cleanVars, stageAVars, stageBVars>>
SpecParse == InitParse /\ [][NextParse]_vars

\* the extractor on every bounded document, from the state the fetch leaves
InitExtract ==
    /\ soup \in DocSet
    /\ wikiDoc = soup
    /\ OPENAI_API_KEY = TRUE /\ wiki_url = WikiUrl /\ promptTemplate = <<>>
    /\ headings = <<>> /\ scanned = NoScan /\ combined = <<>>
    /\ cleanContent = <<>> /\ pcA = "fetched"
    /\ netlogA = <<"GET article">> /\ responseA = NoResponse
    /\ CleanOff /\ ParseOff /\ StageBOff
NextExtract ==
    \/ ExtractHeadings /\ UNCHANGED <<cleanVars, parseVars, stageBVars>>
    \/ ExtractCombinedContent /\ UNCHANGED <<cleanVars, parseVars, stageBVars>>
SpecExtract == InitExtract /\ [][NextExtract]_vars

\* one /generate-script request
InitScript ==
    /\ OPENAI_API_KEY \in BOOLEAN
    /\ wiki_url \in UrlSet
    /\ wikiDoc \in SampleDocs
    /\ promptTemplate \in PromptSet
    /\ soup = <<>> /\ headings = <<>> /\ scanned = NoScan /\ combined = <<>>
    /\ cleanContent = <<>> /\ pcA = "start"
    /\ netlogA = <<>> /\ responseA = NoResponse
    /\ CleanOff /\ ParseOff /\ StageBOff
NextScript ==
    \/ GenerateScriptRequest /\ UNCHANGED <<cleanVars, parseVars, stageBVars>>
    \/ FetchWikipediaContent /\ UNCHANGED <<cleanVars, parseVars, stageBVars>>
    \/ ExtractHeadings /\ UNCHANGED <<cleanVars, parseVars, stageBVars>>
    \/ ExtractCombinedContent /\ UNCHANGED <<cleanVars, parseVars, stageBVars>>
    \/ CleanContent /\ UNCHANGED <<cleanVars, parseVars, stageBVars>>
    \/ GenerateScriptFromContent /\ UNCHANGED <<cleanVars, parseVars, stageBVars>>
SpecScript == InitScript /\ [][NextScript]_vars

\* scripts of the /generate-mp3 requests
Mp3Lines == {LineHello, LineLower, LineProse, LineSpaces}
Mp3Scripts == ScriptsOf(Mp3Lines, MaxMp3Lines)
ServeScripts ==
    {LineHello, LineLower, LineLower \o <<"\n">> \o LineHello}

NextMp3 ==
    \E c \in Callers :
        \/ GenerateMp3Request(c) /\ UNCHANGED <<cleanVars, parseVars, stageAVars>>
        \/ StitchTurn(c) /\ UNCHANGED <<cleanVars, parseVars, stageAVars>>
        \/ ExportAudio(c) /\ UNCHANGED <<cleanVars, parseVars, stageAVars>>
        \/ RespondMp3(c) /\ UNCHANGED <<cleanVars, parseVars, stageAVars>>
        \/ ServeAudio(c) /\ UNCHANGED <<cleanVars, parseVars, stageAVars>>

\* one /generate-mp3 request, of caller c1
InitStitch ==
    /\ StageBStart({[c \in Callers |-> IF c = "c1" THEN s ELSE <<>>] :
                      s \in Mp3Scripts}, {"c1"})
    /\ CleanOff /\ ParseOff /\ StageAOff
SpecStitch == InitStitch /\ [][NextMp3]_vars

\* two /generate-mp3 requests with different scripts, handled concurrently
InitServe ==
    /\ StageBStart({f \in [Callers -> ServeScripts] : f["c1"] # f["c2"]}, Callers)
    /\ CleanOff /\ ParseOff /\ StageAOff
SpecServe == InitServe /\ [][NextMp3]_vars

(***************************************************************************)
(* Properties.                                                             *)
(***************************************************************************)
RECURSIVE SumSeq(_)
SumSeq(q) == IF q = <<>> THEN 0 ELSE Head(q) + SumSeq(Tail(q))

\* the elements of a finite set of integers in increasing order
RECURSIVE Ascending(_)
Ascending(S) ==
    IF S = {} THEN <<>>
    ELSE LET m == CHOOSE i \in S : \A j \in S : i <= j
         IN  <<m>> \o Ascending(S \ {m})

Prefix(q, n) == SubSeq(q, 1, IF Len(q) < n THEN Len(q) ELSE n)

\* the stitching of caller c ran to its end
Stitched(c) ==
    pc[c] = "exported" \/ (pc[c] = "done" /\ response[c].status = 200)

\* C1: when every synthesis call succeeds, the stitched track of N turns is
\* segment, pause, segment, ..., segment: N speech segments in turn order
\* (each the synthesis of its turn's text in its speaker's voice), max(N-1, 0)
\* pauses, one between each adjacent pair and none first or last, each of 200,
\* 250, 300, 350 or 400 ms; its duration is the sum of the segment durations
\* plus the sum of the pause durations, and zero for N = 0.
C1_StitchedTrack ==
    \A c \in Callers :
        Stitched(c) =>
            LET N == Len(mp3Turns[c])
                track == final_audio[c]
            IN  /\ Len(track) = N + (IF N > 0 THEN N - 1 ELSE 0)
                /\ Len(segments[c]) = N
                /\ Len(pauses[c]) = (IF N > 0 THEN N - 1 ELSE 0)
                /\ \A k \in 1..N :
                      /\ track[2 * k - 1] = segments[c][k]
                      /\ track[2 * k - 1].kind = "speech"
                      /\ track[2 * k - 1].text = mp3Turns[c][k][2]
                      /\ track[2 * k - 1].voice = VOICE_MAP[mp3Turns[c][k][1]]
                /\ \A k \in 1..(N - 1) :
                      /\ track[2 * k].kind = "pause"
                      /\ track[2 * k].dur = pauses[c][k]
                      /\ track[2 * k].dur \in {200, 250, 300, 350, 400}
                /\ Duration(track)
                     = SumSeq([k \in 1..N |-> segments[c][k].dur]) + SumSeq(pauses[c])
                /\ (N = 0 => Duration(track) = 0)

\* three turns stitched with two pauses of different lengths
C1_Witness ==
    /\ Stitched("c1")
    /\ Len(mp3Turns["c1"]) = 3
    /\ Len(pauses["c1"]) = 2
    /\ pauses["c1"][1] # pauses["c1"][2]
    /\ mp3Turns["c1"][1][1] # mp3Turns["c1"][2][1]

\* C2: with the credential absent, an invocation of script generation makes
\* no network call at any point and ends in the configuration error.
C2_NoNetworkCallWithoutCredential ==
    (~OPENAI_API_KEY /\ pcA \notin {"off", "start"} /\ Strip(wiki_url) # <<>>) =>
        /\ netlogA = <<>>
        /\ pcA = "done" => responseA.error = "OPENAI_API_KEY not set"

\* C3: a failed synthesis call is the last call of its invocation, the calls
\* were made for turns 1, 2, ... in order, the handler answers with the
\* error, and the invocation exports no file and is served no audio.
C3_FailureAbortsStitching ==
    \A c \in Callers :
        /\ \A k \in 1..Len(calls[c]) : calls[c][k].turn = k
        /\ \A k \in 1..Len(calls[c]) :
              calls[c][k].status # 200 =>
                 /\ k = Len(calls[c])
                 /\ pc[c] = "done"
                 /\ response[c].status = 500
                 /\ response[c].error = "ElevenLabs TTS failed"
                 /\ response[c].audio_url = ""
                 /\ audioFile.by # c
                 /\ served[c] = NotServed

\* the second call failed after the first segment and its pause were stitched,
\* with a third turn waiting
C3_Witness ==
    /\ Len(calls["c1"]) = 2
    /\ calls["c1"][2].status = 503
    /\ Len(final_audio["c1"]) = 2
    /\ Len(mp3Turns["c1"]) = 3
    /\ response["c1"].status = 500

C4_Folds(c, l) == \E k \in 1..26 : LowerSeq[k] = l /\ c \in {LowerSeq[k], UpperSeq[k]}

\* the position d of the digit when the trimmed line t matches the
\* speaker-label pattern, as a set (empty when it does not match)
C4_DigitAt(t) ==
    {d \in 8..(Len(t) - 2) :
        /\ \A i \in 1..7 : C4_Folds(t[i], SpeakerWord[i])
        /\ \A i \in 8..(d - 1) : t[i] \in Space
        /\ t[d] \in {"1", "2"}
        /\ t[d + 1] = ":"}

RECURSIVE C4_MatchingTurns(_)
C4_MatchingTurns(lines) ==
    IF lines = <<>> THEN <<>>
    ELSE LET t == Strip(Head(lines))
             D == C4_DigitAt(t)
         IN  IF D = {} THEN C4_MatchingTurns(Tail(lines))
             ELSE LET d == CHOOSE x \in D : TRUE
                  IN  <<(<<IF t[d] = "1" THEN "speaker1" ELSE "speaker2",
                            Strip(SubSeq(t, d + 2, Len(t)))>>)>>
                      \o C4_MatchingTurns(Tail(lines))

\* C4: the turns are the lines of the script that match the speaker-label
\* pattern after trimming, in their order, one turn per matching line and
\* nothing for the others; every turn's speaker is speaker1 or speaker2
\* (speaker1 iff the digit is 1) and its utterance is trimmed and non-empty.
C4_TurnsAreMatchingLines ==
    parsePc = "done" =>
        /\ turns = C4_MatchingTurns(SplitLines(script))
        /\ \A k \in 1..Len(turns) :
              /\ turns[k][1] \in {"speaker1", "speaker2"}
              /\ turns[k][2] # <<>>
              /\ Strip(turns[k][2]) = turns[k][2]

\* a padded upper-case line, a dropped line and a plain line: two turns
C4_Witness ==
    /\ parsePc = "done"
    /\ script = LineUpperPadded \o <<"\n">> \o LineProse \o <<"\n">> \o LineHello
    /\ turns = << <<"speaker2", <<"O","k">> >>,
                  <<"speaker1", <<"H","i"," ","y","o","u">> >> >>

\* the texts of the subsection headings that qualify, in document order
C5_Eligible(doc) ==
    LET E == Ascending({i \in 1..Len(doc) :
                           /\ doc[i].name = "h2"
                           /\ doc[i].text # <<>>
                           /\ doc[i].text # Contents})
    IN  [k \in 1..Len(E) |-> <<"H2", doc[E[k]].text>>]

HeadingsDone == pcA \in {"headings", "combined"}

\* C5 as stated: for every document the headings are one top-level heading
\* followed by at most two subsection headings, at most 3 entries, and no
\* subsection heading "Contents".
C5_OneTopLevelThenTwo ==
    HeadingsDone =>
        /\ Len(headings) >= 1
        /\ Len(headings) <= 3
        /\ headings[1][1] = "H1"
        /\ Cardinality({k \in 1..Len(headings) : headings[k][1] = "H2"}) <= 2
        /\ \A k \in 2..Len(headings) : headings[k][1] = "H2"
        /\ \A k \in 1..Len(headings) : headings[k] # <<"H2", Contents>>

\* C5 amended: a document with a page title element yields that top-level
\* heading followed by its first two qualifying subsection headings (fewer
\* when it has fewer); a document without one yields no top-level heading
\* and its first three qualifying subsection headings; never more than 3
\* entries, and a subsection heading "Contents" or with no text is never
\* selected and does not count toward the cap.
C5_HeadingsSelected ==
    HeadingsDone =>
        /\ Len(headings) <= 3
        /\ \A k \in 1..Len(headings) :
              headings[k] # <<"H2", Contents>> /\ headings[k] # <<"H2", <<>> >>
        /\ IF FindTitle(soup) # 0
           THEN headings = <<(<<"H1", soup[FindTitle(soup)].text>>)>>
                           \o Prefix(C5_Eligible(soup), 2)
           ELSE headings = Prefix(C5_Eligible(soup), 3)

\* a title, then "Contents" skipped, then two subsection headings selected
C5_Witness ==
    /\ pcA = "headings"
    /\ FindTitle(soup) # 0
    /\ Len(headings) = 3
    /\ \E i, j \in 1..Len(soup) :
          /\ i < j
          /\ soup[i].name = "h2" /\ soup[i].text = Contents
          /\ soup[j].name = "h2" /\ headings[3] = <<"H2", soup[j].text>>

\* the tags the scan is bounded by: the ones located for the first and the
\* last selected heading (0 when one is not located)
StartAt == IF headings = <<>> THEN 0 ELSE FindHeading(soup, headings[1])
EndAt == IF headings = <<>> THEN 0 ELSE FindHeading(soup, headings[Len(headings)])

\* where the scan stops: the first heading-level tag after the start that
\* equals neither the start tag nor the end tag, or past the document's end
StopAt ==
    LET S == {j \in (StartAt + 1)..Len(soup) :
                 /\ soup[j].name \in {"h1", "h2"}
                 /\ soup[j] # soup[StartAt]
                 /\ soup[j] # soup[EndAt]}
    IN  IF S = {} THEN Len(soup) + 1 ELSE FirstOf(S)

\* the paragraphs of more than 50 characters between the start and the stop
Window ==
    IF StartAt = 0 \/ EndAt = 0 THEN <<>>
    ELSE Ascending({i \in (StartAt + 1)..(StopAt - 1) :
                       soup[i].name = "p" /\ Len(soup[i].text) > 50})

\* C6 as stated: a document with no page title element extracts to "".
C6_NoTitleExtractsNothing ==
    (pcA = "combined" /\ FindTitle(soup) = 0) => combined = <<>>

\* C6 amended: for a document with no page title element, extraction returns
\* the empty string exactly when no subsection heading is selected, or the
\* first or last selected one cannot be located, or no paragraph of more than
\* 50 characters lies between the first selected subsection heading and the
\* stop of the scan; otherwise it returns those paragraphs.
C6_NoTitleExtractsFromSubsections ==
    (pcA = "combined" /\ FindTitle(soup) = 0) =>
        /\ combined = <<>> <=>
              \/ C5_Eligible(soup) = <<>>
              \/ StartAt = 0 \/ EndAt = 0
              \/ Window = <<>>
        /\ C5_Eligible(soup) = <<>> => (headings = <<>> /\ scanned = NoScan)
        /\ combined # <<>> => combined[1] = soup[Window[1]].text[1]

\* no title, two subsection headings and a long paragraph after the second
C6_Witness ==
    /\ pcA = "combined"
    /\ FindTitle(soup) = 0
    /\ Len(headings) = 2
    /\ combined # <<>>
    /\ scanned.collected # <<>>
    /\ scanned.collected[1] > EndAt

\* C7 as stated: every collected paragraph lies strictly after the first
\* heading's tag and not past the last heading's tag, is longer than 50
\* characters, and the paragraphs are in document order.
C7_NothingPastLastHeading ==
    (pcA = "combined" /\ scanned # NoScan) =>
        /\ \A k \in 1..Len(scanned.collected) :
              /\ scanned.collected[k] > StartAt
              /\ scanned.collected[k] <= EndAt
              /\ Len(soup[scanned.collected[k]].text) > 50
        /\ \A k \in 1..(Len(scanned.collected) - 1) :
              scanned.collected[k] < scanned.collected[k + 1]

\* C7 amended: the collected paragraphs are exactly the paragraphs of more
\* than 50 characters that lie strictly after the tag located for the first
\* selected heading and before the stop of the scan, in document order; the
\* scan stops at the first heading-level tag after the start that equals
\* neither the start tag nor the end tag, so paragraphs that follow the last
\* heading's tag are collected up to the next such heading; the result is
\* their texts joined by newlines.
C7_WindowCollected ==
    (pcA = "combined" /\ scanned # NoScan) =>
        /\ StartAt # 0 /\ EndAt # 0
        /\ scanned.collected = Window
        /\ scanned.stop = StopAt
        /\ \A k \in 1..Len(scanned.collected) :
              /\ scanned.collected[k] > StartAt
              /\ scanned.collected[k] < scanned.stop
              /\ Len(soup[scanned.collected[k]].text) > 50
        /\ \A k \in 1..(Len(scanned.collected) - 1) :
              scanned.collected[k] < scanned.collected[k + 1]
        /\ combined = Join(<<"\n">>, [k \in 1..Len(Window) |-> soup[Window[k]].text])

\* a paragraph collected after the last heading's tag, and the scan stopped
\* by a later heading
C7_Witness ==
    /\ pcA = "combined"
    /\ scanned # NoScan
    /\ Len(headings) = 2
    /\ scanned.collected # <<>>
    /\ scanned.collected[Len(scanned.collected)] > EndAt
    /\ scanned.stop <= Len(soup)

\* C8: the normalizer applied to its own output returns that output.
C8_Idempotent == cleanPc = "twice" => cleanOut2 = cleanOut1

\* a citation was removed and a later rule changed the text as well
C8_Witness ==
    /\ cleanPc = "twice"
    /\ \E i \in 1..Len(cleanIn) : cleanIn[i] = "["
    /\ RemoveCitations(cleanIn) # cleanIn
    /\ cleanOut1 # RemoveCitations(cleanIn)
    /\ cleanOut1 # <<>>

\* the inputs word [ ... ] word: one citation marker, a lower-case word right
\* before it and one right after it
C9_Marker(s) ==
    {i \in 2..Len(s) :
        /\ s[i] = "["
        /\ \A k \in 1..(i - 1) : s[k] \in Lower
        /\ FirstClose(s, i + 1) # 0
        /\ FirstClose(s, i + 1) < Len(s)
        /\ \A k \in (FirstClose(s, i + 1) + 1)..Len(s) : s[k] \in Lower}

\* C9: a citation marker directly between two words is removed and the two
\* words are separated by exactly one space; "text[12]more" becomes
\* "text more".
C9_CitationSeparatesWords ==
    (cleanPc \in {"once", "twice"} /\ C9_Marker(cleanIn) # {}) =>
        LET i == CHOOSE x \in C9_Marker(cleanIn) : TRUE
            j == FirstClose(cleanIn, i + 1)
        IN  cleanOut1 = SubSeq(cleanIn, 1, i - 1) \o <<" ">>
                        \o SubSeq(cleanIn, j + 1, Len(cleanIn))

\* C10: the audio at the URL a caller was answered with, when the answer is
\* given and when the caller fetches it, is the track stitched from that
\* caller's own script, and the duration reported is that track's.
C10_CallerGetsOwnAudio ==
    \A c \in Callers :
        /\ (pc[c] = "done" /\ response[c].status = 200) =>
              /\ response[c].duration_ms = Duration(final_audio[c])
              /\ audioFile.track = final_audio[c]
        /\ served[c].status = 200 => served[c].track = final_audio[c]

====
